---- MODULE Spec2Model ----
(***************************************************************************)
(* Instant-runoff tabulation of src/irv.py: the VoteTable class and the    *)
(* instant_runoff engine.                                                  *)
(*                                                                         *)
(* Conventions of the model                                                *)
(*   - a candidate name is a positive integer; the order of the integers   *)
(*     stands for the order of the name strings;                            *)
(*   - None is 0.  The interactive path of the script (input() giving an   *)
(*     int, string.ljust) is Python 2, where None sorts below every int,   *)
(*     which is how 0 sorts below every rank;                               *)
(*   - Python's 0-based indices are kept in the arguments of the methods   *)
(*     (index 0 is the first candidate); sequences are 1-based inside.     *)
(*   - a method of VoteTable is an operator that gives back the receiver   *)
(*     as the call leaves it (.self) and the value returned (.result).     *)
(***************************************************************************)
EXTENDS Integers, Sequences, FiniteSets

\* Largest number of candidates of a contest.
MaxCand == 3

\* Largest size of a contest: number of ballots times number of candidates.
MaxSlots == 9

None == 0

VARIABLES is_automated, pc, table, full_table, ranking, ineligible_candidates,
          rank, N, winner, ineligibility_found, unlucky_soul, eliminations, call

vars == <<is_automated, pc, table, full_table, ranking, ineligible_candidates,
          rank, N, winner, ineligibility_found, unlucky_soul, eliminations, call>>

----------------------------------------------------------------------------
(* Helpers for Python's built-ins *)

RECURSIVE sum(_)
sum(list) == IF list = <<>> THEN 0 ELSE Head(list) + sum(Tail(list))

\* list(x): the elements of x as a list.
list(x) == SubSeq(x, 1, Len(x))

\* Python's < on two lists of the same length (lexicographic).
list_less(a, b) ==
    \E k \in 1..Len(a) :
        /\ k <= Len(b)
        /\ a[k] < b[k]
        /\ \A j \in 1..(k - 1) : a[j] = b[j]

\* Python's < on the 3-tuples (counts, votes of the candidate, name).
tuple_less(x, y) ==
    \/ list_less(x[1], y[1])
    \/ /\ x[1] = y[1]
       /\ \/ list_less(x[2], y[2])
          \/ x[2] = y[2] /\ x[3] < y[3]

\* sorted(items) for items that are pairwise different.
sorted(items) ==
    LET place == list([i \in 1..Len(items) |->
                     1 + Cardinality({j \in 1..Len(items) : tuple_less(items[j], items[i])})])
    IN  list([p \in 1..Len(items) |-> items[CHOOSE i \in 1..Len(items) : place[i] = p]])

\* p3zip: the transpose of a list of lists of one length.
p3zip(item) ==
    IF item = <<>> THEN <<>>
    ELSE list([i \in 1..Len(item[1]) |-> list([j \in 1..Len(item) |-> item[j][i]])])

----------------------------------------------------------------------------
(* get_rank_order and the VoteTable class *)

\* get_rank_order: the non-None entries, sorted by (value, index), get 1..k.
get_rank_order(ballot) ==
    list([i \in 1..Len(ballot) |->
        IF ballot[i] = None THEN None
        ELSE 1 + Cardinality({j \in 1..Len(ballot) :
                     /\ ballot[j] /= None
                     /\ \/ ballot[j] < ballot[i]
                        \/ ballot[j] = ballot[i] /\ j < i})])

votes_by_candidate(self) == p3zip(self.votes)

reduce_ranks(self) ==
    [self EXCEPT !.votes = list([j \in 1..Len(self.votes) |-> get_rank_order(self.votes[j])])]

\* The counter of one candidate: [# of 1st place votes, # of 2nd place votes, ...].
counter(self, votes) ==
    list([r \in 1..self.N_candidates |->
        Cardinality({j \in 1..Len(votes) : votes[j] /= None /\ votes[j] = r})])

\* update_counts that leaves the candidates in the order it found them.
update_counts_unsorted(self) ==
    LET byc    == votes_by_candidate(self)
        n      == IF Len(self.names) <= Len(byc) THEN Len(self.names) ELSE Len(byc)
        counts == list([c \in 1..n |-> counter(self, byc[c])])
    IN  [self EXCEPT !.votes  = p3zip(list([c \in 1..n |-> byc[c]])),
                     !.counts = counts,
                     !.names  = list([c \in 1..n |-> self.names[c]])]

update_counts(self) ==
    LET byc    == votes_by_candidate(self)
        n      == IF Len(self.names) <= Len(byc) THEN Len(self.names) ELSE Len(byc)
        counts == list([c \in 1..n |-> counter(self, byc[c])])
        srt    == sorted(list([c \in 1..n |-> <<counts[c], byc[c], self.names[c]>>]))
    IN  [self EXCEPT !.votes  = p3zip(list([c \in 1..n |-> srt[c][2]])),
                     !.counts = list([c \in 1..n |-> srt[c][1]]),
                     !.names  = list([c \in 1..n |-> srt[c][3]])]

maintain(self) ==
    update_counts(reduce_ranks(
        [self EXCEPT !.N_votes = Len(self.votes), !.N_candidates = Len(self.names)]))

VoteTable(votes, names) ==
    maintain([votes |-> votes, names |-> names, counts |-> <<>>,
              N_votes |-> 0, N_candidates |-> 0])

copy(self) == [self |-> self, result |-> VoteTable(self.votes, self.names)]

\* compute_winner with >= for >.
compute_winner_half(self) ==
    IF 2 * self.counts[Len(self.counts)][1] >= self.N_votes
    THEN self.names[Len(self.names)]
    ELSE None

\* compute_winner that compares with N_votes, not with its half.
compute_winner_all(self) ==
    IF self.counts[Len(self.counts)][1] > self.N_votes
    THEN self.names[Len(self.names)]
    ELSE None

\* None, or the name of the strongest candidate when it has more than half
\* of the ballots: counts[-1][0] > N_votes/2, the same in integer and in true
\* division.
compute_winner(self) ==
    IF 2 * self.counts[Len(self.counts)][1] > self.N_votes
    THEN self.names[Len(self.names)]
    ELSE None

check_tied(self) ==
    LET counts_equal   == self.counts[Len(self.counts)] = self.counts[Len(self.counts) - 1]
        counts_nonzero == sum(self.counts[Len(self.counts)]) > 0
    IN  counts_equal /\ counts_nonzero

\* without that takes the first element, whatever the index.
without_first(items, index) ==
    list([k \in 1..(Len(items) - 1) |-> items[k + 1]])

\* list[:index] + list[index+1:], index counted from 0.
without(items, index) ==
    list([k \in 1..(Len(items) - 1) |-> IF k <= index THEN items[k] ELSE items[k + 1]])

\* with_candidate_eliminated that rebuilds the table with every candidate.
with_candidate_eliminated_keep(self, index) ==
    [self |-> self, result |-> VoteTable(self.votes, self.names)]

\* with_candidate_eliminated that changes the table it is called on.
with_candidate_eliminated_inplace(self, index) ==
    LET rebuilt == VoteTable(p3zip(without(votes_by_candidate(self), index)),
                             without(self.names, index))
    IN  [self |-> rebuilt, result |-> rebuilt]

with_candidate_eliminated(self, index) ==
    LET votes     == votes_by_candidate(self)
        new_votes == without(votes, index)
        new_names == without(self.names, index)
    IN  [self |-> self, result |-> VoteTable(p3zip(new_votes), new_names)]

\* names.index that gives 0 for every name.
names_index_first(names, name) == 0

\* names.index(name), counted from 0.
names_index(names, name) ==
    (CHOOSE k \in 1..Len(names) :
        names[k] = name /\ \A j \in 1..(k - 1) : names[j] /= name) - 1

----------------------------------------------------------------------------
(* The contests the engine is started on *)

\* The ballots filterBallot lets through, for n candidates: ranks that are
\* pairwise different, at least one of them; a slot without a rank is None.
Ballots(n) ==
    {b \in [1..n -> 0..n] :
        /\ \E i \in 1..n : b[i] /= None
        /\ \A i, j \in 1..n : (i /= j /\ b[i] /= None) => b[i] /= b[j]}

NoCall == [op |-> "none", before |-> <<>>, after |-> <<>>, index |-> 0, result |-> <<>>]

Init ==
    \E n \in 1..MaxCand :
      \E m \in 1..(MaxSlots \div n) :
        \E ballots \in [1..m -> Ballots(n)] :
            /\ table = VoteTable(list(ballots), list([i \in 1..n |-> i]))
            /\ is_automated \in BOOLEAN
            /\ full_table = <<>>
            /\ N = n
            /\ pc = "for"
            /\ rank = 0
            /\ ranking = <<>>
            /\ ineligible_candidates = <<>>
            /\ winner = None
            /\ ineligibility_found = FALSE
            /\ unlucky_soul = None
            /\ eliminations = 0
            /\ call = NoCall

----------------------------------------------------------------------------
(* instant_runoff *)

Called(op, self, index, r) ==
    [op |-> op, before |-> self, after |-> r.self, index |-> index, result |-> r.result]

\* for rank in range(N): full_table = table.copy()
StartRound ==
    /\ pc = "for"
    /\ rank < N
    /\ call' = Called("copy", table, 0, copy(table))
    /\ table' = call'.after
    /\ full_table' = call'.result
    /\ eliminations' = 0
    /\ pc' = "while"
    /\ UNCHANGED <<is_automated, ranking, ineligible_candidates, rank, N, winner,
                   ineligibility_found, unlucky_soul>>

\* while True: a candidate has enough 1st place votes; break.
MajorityFound ==
    /\ pc = "while"
    /\ compute_winner(table) /= None
    /\ ineligibility_found' = FALSE
    /\ winner' = compute_winner(table)
    /\ pc' = "after"
    /\ UNCHANGED <<is_automated, table, full_table, ranking, ineligible_candidates,
                   rank, N, unlucky_soul, eliminations, call>>

\* while True: no winner and one candidate left; break.
SingleLeftIneligible ==
    /\ pc = "while"
    /\ compute_winner(table) = None
    /\ table.N_candidates = 1
    /\ winner' = None
    /\ ineligibility_found' = TRUE
    /\ unlucky_soul' = table.names[1]
    /\ ineligible_candidates' = Append(ineligible_candidates, table.names[1])
    /\ pc' = "after"
    /\ UNCHANGED <<is_automated, table, full_table, ranking, rank, N, eliminations, call>>

\* while True: no winner, automated and not tied; loser_index = 0.
AutoEliminate ==
    /\ pc = "while"
    /\ compute_winner(table) = None
    /\ table.N_candidates /= 1
    /\ is_automated
    /\ ~check_tied(table)
    /\ eliminations <= N
    /\ call' = Called("with_candidate_eliminated", table, 0,
                      with_candidate_eliminated(table, 0))
    /\ table' = call'.result
    /\ winner' = None
    /\ ineligibility_found' = FALSE
    /\ eliminations' = eliminations + 1
    /\ UNCHANGED <<is_automated, pc, full_table, ranking, ineligible_candidates,
                   rank, N, unlucky_soul>>

\* while True: no winner, manual or tied; print_table() and wait in input().
AwaitDecision ==
    /\ pc = "while"
    /\ compute_winner(table) = None
    /\ table.N_candidates /= 1
    /\ ~is_automated \/ check_tied(table)
    /\ winner' = None
    /\ ineligibility_found' = FALSE
    /\ pc' = "input"
    /\ UNCHANGED <<is_automated, table, full_table, ranking, ineligible_candidates,
                   rank, N, unlucky_soul, eliminations, call>>

\* input() gives loser_index, an index of the table.
Decide(loser_index) ==
    /\ pc = "input"
    /\ eliminations <= N
    /\ call' = Called("with_candidate_eliminated", table, loser_index,
                      with_candidate_eliminated(table, loser_index))
    /\ table' = call'.result
    /\ eliminations' = eliminations + 1
    /\ pc' = "while"
    /\ UNCHANGED <<is_automated, full_table, ranking, ineligible_candidates,
                   rank, N, winner, ineligibility_found, unlucky_soul>>

\* EndRound that takes the candidate out of the live table, not out of full_table.
EndRound_live ==
    /\ pc = "after"
    /\ LET w == IF ineligibility_found THEN unlucky_soul ELSE winner
       IN  /\ winner' = w
           /\ ranking' = IF ineligibility_found THEN ranking ELSE Append(ranking, winner)
           /\ IF rank /= N - 1
              THEN /\ call' = Called("with_candidate_eliminated", table,
                                     names_index(table.names, w),
                                     with_candidate_eliminated(
                                         table, names_index(table.names, w)))
                   /\ table' = call'.result
                   /\ full_table' = full_table
              ELSE UNCHANGED <<table, full_table, call>>
    /\ rank' = rank + 1
    /\ pc' = "for"
    /\ UNCHANGED <<is_automated, ineligible_candidates, N, ineligibility_found,
                   unlucky_soul, eliminations>>

\* EndRound that appends to ranking in the ineligible case too.
EndRound_ranked ==
    /\ pc = "after"
    /\ LET w == IF ineligibility_found THEN unlucky_soul ELSE winner
       IN  /\ winner' = w
           /\ ranking' = Append(ranking, w)
           /\ IF rank /= N - 1
              THEN /\ call' = Called("with_candidate_eliminated", full_table,
                                     names_index(full_table.names, w),
                                     with_candidate_eliminated(
                                         full_table, names_index(full_table.names, w)))
                   /\ table' = call'.result
                   /\ full_table' = call'.after
              ELSE UNCHANGED <<table, full_table, call>>
    /\ rank' = rank + 1
    /\ pc' = "for"
    /\ UNCHANGED <<is_automated, ineligible_candidates, N, ineligibility_found,
                   unlucky_soul, eliminations>>

\* After the while loop: record the candidate of this rank and take it out of
\* full_table for the next rank.
EndRound ==
    /\ pc = "after"
    /\ LET w == IF ineligibility_found THEN unlucky_soul ELSE winner
       IN  /\ winner' = w
           /\ ranking' = IF ineligibility_found THEN ranking ELSE Append(ranking, winner)
           /\ IF rank /= N - 1
              THEN /\ call' = Called("with_candidate_eliminated", full_table,
                                     names_index(full_table.names, w),
                                     with_candidate_eliminated(
                                         full_table, names_index(full_table.names, w)))
                   /\ table' = call'.result
                   /\ full_table' = call'.after
              ELSE UNCHANGED <<table, full_table, call>>
    /\ rank' = rank + 1
    /\ pc' = "for"
    /\ UNCHANGED <<is_automated, ineligible_candidates, N, ineligibility_found,
                   unlucky_soul, eliminations>>

\* range(N) is exhausted: return results.
Return ==
    /\ pc = "for"
    /\ rank = N
    /\ pc' = "done"
    /\ UNCHANGED <<is_automated, table, full_table, ranking, ineligible_candidates,
                   rank, N, winner, ineligibility_found, unlucky_soul, eliminations, call>>

Next ==
    \/ StartRound
    \/ MajorityFound
    \/ SingleLeftIneligible
    \/ AutoEliminate
    \/ AwaitDecision
    \/ \E loser_index \in 0..(table.N_candidates - 1) : Decide(loser_index)
    \/ EndRound
    \/ Return

Spec == Init /\ [][Next]_vars

----------------------------------------------------------------------------
(* Vocabulary of the properties *)

IsTable(t) == t /= <<>>

\* The elements of a list.
Range(s) == {s[i] : i \in 1..Len(s)}

\* The tables the engine holds.
Tables == {t \in {table, full_table} : IsTable(t)}

\* The place of candidate a in a list of names.
pos(names, a) == CHOOSE k \in 1..Len(names) : names[k] = a

\* The ballots of t that give candidate number c the rank r.
BallotsRanking(t, c, r) == {j \in 1..Len(t.votes) : t.votes[j][c] = r}

\* The ballots of t that give candidate number c any rank.
BallotsNaming(t, c) == {j \in 1..Len(t.votes) : t.votes[j][c] /= None}

\* a <= b for two lists of one length, lexicographically.
LexLeq(a, b) == a = b \/ list_less(a, b)

\* Column c of t: the ranks of candidate number c, ballot by ballot.
Column(t, c) == [j \in 1..Len(t.votes) |-> t.votes[j][c]]

\* The candidates placed so far, in either list.
Placed == Range(ranking) \cup Range(ineligible_candidates)

\* t is f without candidate w: the other candidates, the same ballots, and in
\* every ballot the ranks 1..k given in the order the ballot had in f.
IsRestriction(t, f, w) ==
    /\ Range(t.names) = Range(f.names) \ {w}
    /\ Len(t.names) = Len(f.names) - 1
    /\ Len(t.votes) = Len(f.votes)
    /\ \A j \in 1..Len(t.votes) : \A a \in Range(t.names) :
          LET fa == f.votes[j][pos(f.names, a)]
              ta == t.votes[j][pos(t.names, a)]
          IN  IF fa = None THEN ta = None
              ELSE ta = 1 + Cardinality({b \in Range(t.names) :
                                 /\ f.votes[j][pos(f.names, b)] /= None
                                 /\ f.votes[j][pos(f.names, b)] < fa})

----------------------------------------------------------------------------
(* Properties *)

\* C1: in every table, compute_winner gives a name exactly when some candidate
\* is ranked 1 by more than half of all the ballots of the table (ballots that
\* name no remaining candidate count in the total), the name is that
\* candidate's, and the result is None otherwise, also at exactly half.
C1_MajorityWinner ==
    \A t \in Tables :
        LET majority == {c \in 1..Len(t.names) :
                            2 * Cardinality(BallotsRanking(t, c, 1)) > Len(t.votes)}
        IN  /\ (compute_winner(t) /= None) <=> (majority /= {})
            /\ \A c \in majority : compute_winner(t) = t.names[c]

\* A round ended with a majority winner although a ballot of the live table
\* names none of the remaining candidates.
C1_Witness ==
    /\ pc = "after"
    /\ ~ineligibility_found
    /\ winner /= None
    /\ table.N_candidates >= 2
    /\ \E j \in 1..Len(table.votes) : \A c \in 1..Len(table.names) : table.votes[j][c] = None

CountsAligned(t) ==
    /\ Len(t.counts) = Len(t.names)
    /\ \A j \in 1..Len(t.votes) : Len(t.votes[j]) = Len(t.names)
    /\ \A c \in 1..Len(t.names) :
          /\ Len(t.counts[c]) = Len(t.names)
          /\ \A r \in 1..Len(t.names) :
                t.counts[c][r] = Cardinality(BallotsRanking(t, c, r))

\* C3 as stated: every table is in ascending order of the count vectors, and
\* candidates with equal count vectors are in ascending order of their names.
C3_SortedByCountsThenName ==
    \A t \in Tables :
        /\ CountsAligned(t)
        /\ \A c, d \in 1..Len(t.names) :
              c < d => \/ list_less(t.counts[c], t.counts[d])
                       \/ t.counts[c] = t.counts[d] /\ t.names[c] < t.names[d]

\* C3, amended: every table is in ascending order of the count vectors;
\* candidates with equal count vectors are in ascending order of their columns
\* of votes (None lowest), and in ascending order of their names when the
\* columns are equal too.
C3_SortedByCountsColumnName ==
    \A t \in Tables :
        /\ CountsAligned(t)
        /\ \A c, d \in 1..Len(t.names) :
              c < d =>
                \/ list_less(t.counts[c], t.counts[d])
                \/ /\ t.counts[c] = t.counts[d]
                   /\ \/ list_less(Column(t, c), Column(t, d))
                      \/ Column(t, c) = Column(t, d) /\ t.names[c] < t.names[d]

\* Two candidates with equal count vectors stand with the greater name first.
C3_Witness ==
    \E c, d \in 1..Len(table.names) :
        /\ c < d
        /\ table.counts[c] = table.counts[d]
        /\ table.names[c] > table.names[d]

\* The two weakest candidates of t have one count vector, which is not all zero.
WeakestTied(t) ==
    /\ Len(t.names) >= 2
    /\ t.counts[1] = t.counts[2]
    /\ \E r \in 1..Len(t.counts[1]) : t.counts[1][r] > 0

\* C4: in automated mode, a step of the inner loop on a table with no majority
\* winner and at least 2 candidates eliminates index 0 without input only when
\* the two weakest candidates are not in an unbreakable tie; when they are, the
\* step waits for the decision from outside.
C4_TieDefers ==
    [][(/\ pc = "while"
        /\ is_automated
        /\ compute_winner(table) = None
        /\ table.N_candidates >= 2
        /\ WeakestTied(table)) => pc' = "input"]_vars

\* C5: the table a round after the first starts from is the snapshot of the
\* round before without the candidate that round determined; nothing else is
\* missing, whatever was eliminated inside that round.
C5_RoundIndependence ==
    (pc = "for" /\ 0 < rank /\ rank < N) => IsRestriction(table, full_table, winner)

\* A round in which candidates were eliminated has ended and another follows.
C5_Witness ==
    /\ pc = "for"
    /\ 0 < rank
    /\ rank < N
    /\ eliminations >= 1

\* C6: the ranking has at most N names, none of them twice, and none of them
\* is in ineligible_candidates.
C6_RankingDisjoint ==
    /\ Len(ranking) <= N
    /\ \A i, j \in 1..Len(ranking) : i /= j => ranking[i] /= ranking[j]
    /\ Range(ranking) \cap Range(ineligible_candidates) = {}

\* A contest has returned with ranked candidates and an ineligible one.
C6_Witness ==
    /\ pc = "done"
    /\ ranking /= <<>>
    /\ ineligible_candidates /= <<>>

\* What is left to do: the rounds to come, and inside a round the candidates
\* of the live table; the steps of the inner loop count double, a step that
\* waits for input() comes before the elimination it asks for.
Variant ==
    LET round == 2 * N + 3
        inner == CASE pc = "for"   -> 2 * N + 2
                   [] pc = "while" -> 2 * table.N_candidates + 1
                   [] pc = "input" -> 2 * table.N_candidates
                   [] pc = "after" -> 0
                   [] pc = "done"  -> 0
    IN  IF pc = "done" THEN 0 ELSE (N - rank) * round + inner

\* C7: instant_runoff returns, whatever indices input() gives: every step of
\* the engine brings the natural number Variant down, so that no run goes on
\* for ever; it runs at most N rounds, and the inner loop of a round makes at
\* most N eliminations.
C7_Terminates ==
    [][/\ Variant' < Variant
       /\ Variant' >= 0
       /\ rank' <= N
       /\ eliminations' <= N]_vars

\* A manual contest of the largest size has returned.
C7_Witness ==
    /\ pc = "done"
    /\ ~is_automated
    /\ N = MaxCand

\* C8 as stated: with_candidate_eliminated(i) gives the candidates without
\* names[i], one slot fewer in every ballot, and the remaining candidates in
\* the relative order they had.
C8_EliminationKeepsOrder ==
    call.op = "with_candidate_eliminated" =>
        /\ Range(call.result.names) = Range(call.before.names) \ {call.before.names[call.index + 1]}
        /\ call.result.N_candidates = call.before.N_candidates - 1
        /\ Len(call.result.names) = Len(call.before.names) - 1
        /\ \A j \in 1..Len(call.result.votes) :
              Len(call.result.votes[j]) = Len(call.before.votes[j]) - 1
        /\ \A a, b \in Range(call.result.names) :
              pos(call.before.names, a) < pos(call.before.names, b)
                  => pos(call.result.names, a) < pos(call.result.names, b)

\* C8, amended: with_candidate_eliminated(i) gives the candidates without
\* names[i], the same ballots with one slot fewer in each, and the remaining
\* candidates in ascending order of the count vectors of the new table.
C8_EliminationRebuilds ==
    call.op = "with_candidate_eliminated" =>
        /\ Range(call.result.names) = Range(call.before.names) \ {call.before.names[call.index + 1]}
        /\ call.result.N_candidates = call.before.N_candidates - 1
        /\ Len(call.result.names) = Len(call.before.names) - 1
        /\ Len(call.result.votes) = Len(call.before.votes)
        /\ \A j \in 1..Len(call.result.votes) :
              Len(call.result.votes[j]) = Len(call.before.votes[j]) - 1
        /\ \A c, d \in 1..Len(call.result.names) :
              c < d => LexLeq(call.result.counts[c], call.result.counts[d])

\* An elimination after which two remaining candidates have changed places.
C8_Witness ==
    /\ call.op = "with_candidate_eliminated"
    /\ \E a, b \in Range(call.result.names) :
          /\ pos(call.before.names, a) < pos(call.before.names, b)
          /\ pos(call.result.names, a) > pos(call.result.names, b)

\* C9: copy and with_candidate_eliminated leave the table they are called on
\* as it was, and inside a round the snapshot full_table still holds every
\* candidate that was not placed before the round.
C9_ReceiverUnchanged ==
    /\ call.op /= "none" => call.after = call.before
    /\ pc \in {"while", "input", "after"} =>
          /\ full_table.N_candidates = N - rank
          /\ full_table.N_votes = table.N_votes
          /\ Range(table.names) \subseteq Range(full_table.names)

\* The live table has lost candidates that the snapshot of the round still has.
C9_Witness ==
    /\ pc = "while"
    /\ call.op = "with_candidate_eliminated"
    /\ call.after = call.before
    /\ table.N_candidates < full_table.N_candidates

\* C10: every round places one candidate, in ranking or in
\* ineligible_candidates, and takes it out of the table of the next round; at
\* the return every candidate is in exactly one of the two lists, once.
C10_EveryCandidatePlaced ==
    /\ pc \in {"for", "done"} =>
          /\ Len(ranking) + Len(ineligible_candidates) = rank
          /\ Cardinality(Placed) = rank
    /\ (pc = "for" /\ rank < N) => Range(table.names) = (1..N) \ Placed
    /\ pc = "done" =>
          /\ Len(ranking) + Len(ineligible_candidates) = N
          /\ Placed = 1..N

\* A contest of several candidates has returned with every candidate ranked.
C10_Witness ==
    /\ pc = "done"
    /\ N >= 2
    /\ Len(ranking) = N

====
